---- MODULE Spec2Model ----
(***************************************************************************)
(* Bug-fix mining and AI review pipeline of GET-commit-messages.           *)
(*                                                                         *)
(*   ReviewLoop     src/AI_check.py   AICodeReviewer + main                *)
(*   CorpusBuilder  src/gerrit_AI.py  GerritClient.filter_bug_fixes,       *)
(*                                    GerritClient.download_bugfix_patches *)
(*                                                                         *)
(* Texts are sequences of one-character strings.  The module is ASCII, so  *)
(* a CJK character of the source is written as one token:                  *)
(*   "cuo" = U+9519 (wrong)   "dui" = U+5BF9 (right)                       *)
(*   "shi" = U+662F (yes)     "fou" = U+5426 (no)                          *)
(*   "pan","duan" / "lei","xing" / "miao","shu" = the two characters of    *)
(*   the judgment / type / description markers.                            *)
(***************************************************************************)
EXTENDS Integers, Sequences, FiniteSets, TLC

VARIABLES
    \* ---- ReviewLoop (AI_check.main) ----
    df,             \* the DataFrame: sequence of rows
    index,          \* loop variable of df.iterrows(), 1-based
    rpc,            \* position of main: "init","loop","branch","second","done","crashed"
    first_result,   \* local of main
    ai_code,        \* local of main
    calls,          \* oracle calls made so far, in order
    branch,         \* per row: which arm of line 125 / 135 / 143 was taken
    written,        \* per row: output columns assigned through df.at
    out_csv,        \* rows written by df.to_csv, <<>> before
    saves,          \* number of df.to_csv calls
    \* ---- CorpusBuilder (GerritClient.download_bugfix_patches) ----
    changes,        \* get_project_changes' answer
    bug_keywords,   \* parameter
    max_retries,    \* parameter
    kmc,            \* keyword_matched_changes
    ci,             \* position in kmc (enumerate of line 160)
    files,          \* get_change_files' answer for kmc[ci]
    fj,             \* position in files (line 167)
    valuable_files, \* local of filter_bug_fixes
    result,         \* local of filter_bug_fixes, then bugfix_changes
    csv_data,       \* local of download_bugfix_patches
    bi,             \* position in bugfix_changes (line 250)
    bj,             \* position in change["files"] (line 256)
    retry_count,    \* local of download_bugfix_patches
    cpc,            \* position: "start","scan","files","download","retry","done","aborted"
    listed,         \* ids of the changes get_change_files was called for
    fetched,        \* <<id, path>> of the files get_well_formatted_patch was called for
    analysed,       \* what the BugClassifier oracle was asked about: [id, patch]
    discarded,      \* the patches of the files line 175 reported as empty code
    attempts,       \* the writes of patch files tried, in order: [file, ok]
    disk,           \* <<number, path>> of the patch files on disk
    fail_log,       \* <<number, path>> of the files line 284 reported
    csv_file,       \* rows of bugfix_analysis.csv
    csv_written,    \* bugfix_analysis.csv was written
    \* ---- a single call of a pure function ----
    arg,            \* its input
    ret,            \* its result
    ppc             \* "in" before the call, "out" after, "idle" when unused

rvars == <<df, index, rpc, first_result, ai_code, calls, branch, written,
           out_csv, saves>>

cvars == <<changes, bug_keywords, max_retries, kmc, ci, files, fj,
           valuable_files, result, csv_data, bi, bj, retry_count, cpc, listed,
           fetched, analysed, discarded, attempts, disk, fail_log, csv_file, csv_written>>

pvars == <<arg, ret, ppc>>

vars == <<rvars, cvars, pvars>>

(***************************************************************************)
(* Bounds of the model.                                                    *)
(***************************************************************************)
MaxRows == 2
MaxChanges == 2
MaxFiles == 1
MaxRetries == 2
MaxReplyLen == 4
MaxFragments == 3

(***************************************************************************)
(* Texts.                                                                  *)
(***************************************************************************)
CUO == <<"cuo">>
DUI == <<"dui">>
SHI == <<"shi">>
FOU == <<"fou">>
EMPTY == <<>>

\* pandas' missing value, as read from an empty CSV field
NaN == <<"NaN">>
\* the oracle call raised (transport / API failure)
RAISE == <<"RAISE">>
\* the oracle answered with message.content = None
NONE == <<"None">>

\* characters str.strip() and int() treat as whitespace
WS == {" ", "\t", "\n", "\r"}

Digits == {"0", "1", "2", "3", "4", "5", "6", "7", "8", "9"}

RECURSIVE LStrip(_)
LStrip(s) ==
    IF s # <<>> /\ Head(s) \in WS THEN LStrip(Tail(s)) ELSE s

RECURSIVE RStrip(_)
RStrip(s) ==
    IF s # <<>> /\ s[Len(s)] \in WS THEN RStrip(SubSeq(s, 1, Len(s) - 1)) ELSE s

\* str.strip()
Strip(s) == RStrip(LStrip(s))

\* position of the first "\n" of s, 0 when there is none
RECURSIVE FirstNewline(_, _)
FirstNewline(s, k) ==
    IF k > Len(s) THEN 0
    ELSE IF s[k] = "\n" THEN k
    ELSE FirstNewline(s, k + 1)

\* str.split('\n'): always at least one element
RECURSIVE SplitLines(_)
SplitLines(s) ==
    LET k == FirstNewline(s, 1) IN
    IF k = 0 THEN <<s>>
    ELSE <<SubSeq(s, 1, k - 1)>> \o SplitLines(SubSeq(s, k + 1, Len(s)))

DigitVal(c) ==
    CASE c = "0" -> 0 [] c = "1" -> 1 [] c = "2" -> 2 [] c = "3" -> 3
      [] c = "4" -> 4 [] c = "5" -> 5 [] c = "6" -> 6 [] c = "7" -> 7
      [] c = "8" -> 8 [] c = "9" -> 9

RECURSIVE DigitsVal(_)
DigitsVal(s) ==
    IF s = <<>> THEN 0
    ELSE 10 * DigitsVal(SubSeq(s, 1, Len(s) - 1)) + DigitVal(s[Len(s)])

AllDigits(s) == s # <<>> /\ \A k \in 1..Len(s) : s[k] \in Digits

\* int(s) succeeds: surrounding whitespace, an optional sign, decimal digits
IntOk(s) ==
    LET t == Strip(s) IN
    /\ t # <<>>
    /\ IF t[1] \in {"-", "+"} THEN AllDigits(Tail(t)) ELSE AllDigits(t)

\* the value of int(s), for IntOk(s)
IntVal(s) ==
    LET t == Strip(s) IN
    IF t[1] = "-" THEN 0 - DigitsVal(Tail(t))
    ELSE IF t[1] = "+" THEN DigitsVal(Tail(t))
    ELSE DigitsVal(t)

\* what one chat.completions.create call can produce: the call raises, the
\* message has no content, or the content is the text o
OracleFails(o) == o = RAISE \/ o = NONE

(***************************************************************************)
(* AICodeReviewer: the three oracle wrappers of src/AI_check.py.           *)
(* Each takes the outcome o of its chat.completions.create call.           *)
(***************************************************************************)

\* how a call of one of the wrappers ends: it returns v, or an exception
\* leaves it
Return(v) == [raised |-> FALSE, value |-> v]
Raises == [raised |-> TRUE, value |-> EMPTY]

\* mutant: the except arm answers "right" instead of "wrong"
first_review_DefaultsClean(o) ==
    IF OracleFails(o) THEN Return(DUI) ELSE Return(Strip(o))

\* lines 22-41; the try block raises when the call raises and when .strip()
\* is applied to None, and "except Exception" catches both
first_review(o) ==
    IF OracleFails(o) THEN Return(CUO) ELSE Return(Strip(o))

\* mutant: a failure of the oracle leaves generate_fixed_code as an exception
generate_fixed_code_Propagates(bad_code, o) ==
    IF OracleFails(o) THEN Raises ELSE Return(Strip(o))

\* lines 44-63
generate_fixed_code(bad_code, o) ==
    IF OracleFails(o) THEN Return(bad_code) ELSE Return(Strip(o))

\* lines 81-91, the try block of second_review: the exception it ends with
\* ("none" when it reaches its return) and the value it returns
second_review_try(o) ==
    IF o = RAISE THEN [exc |-> "APIError", value |-> <<>>]
    ELSE IF o = NONE THEN [exc |-> "AttributeError", value |-> <<>>]
    ELSE LET parts == SplitLines(Strip(o)) IN
         IF ~IntOk(parts[1]) THEN [exc |-> "ValueError", value |-> <<>>]
         ELSE [exc |-> "none",
               value |-> <<IntVal(parts[1]),
                           IF Len(parts) > 1 THEN parts[2] ELSE FOU>>]

\* mutant: the handler catches the API error only, so a reply that is not a
\* number escapes
second_review_CatchesApiErrorOnly(o) ==
    LET t == second_review_try(o) IN
    IF t.exc = "none" THEN Return(t.value)
    ELSE IF t.exc = "APIError" THEN Return(<<0, FOU>>)
    ELSE Raises

\* lines 66-94: returns <<score, is_suitable>>; "except Exception" turns every
\* exception of the try block into <<0, "no">>
second_review(o) ==
    LET t == second_review_try(o) IN
    IF t.exc = "none" THEN Return(t.value) ELSE Return(<<0, FOU>>)

(***************************************************************************)
(* ReviewLoop: AI_check.main.                                              *)
(***************************************************************************)
OutputColumns == {"first_review", "ai_code", "similarity_score", "suitable_for_training"}

\* codes a dataset cell can hold
BadCodes == {NaN, <<"b">>}
GoodCodes == {NaN, <<"g">>}
Analyses == {<<"a">>}

\* a row as read by pd.read_csv, with the four columns of lines 113-116 added
NewRow(bad, good, analysis) ==
    [bad_code |-> bad, good_code |-> good, bug_analysis |-> analysis,
     first_review |-> EMPTY, ai_code |-> EMPTY, similarity_score |-> 0,
     suitable_for_training |-> EMPTY]

InputRows == {NewRow(b, g, a) : b \in BadCodes, g \in GoodCodes, a \in Analyses}

InputTables == UNION {[1..n -> InputRows] : n \in 0..MaxRows}

\* outcomes of the oracle for each of the three questions
FirstOutcomes == {RAISE, NONE, CUO, DUI, <<" ", "cuo", "\n">>, <<"cuo", ".">>}
FixOutcomes == {RAISE, <<"f">>, <<"f", "\n">>, <<"b">>}
SecondOutcomes ==
    {RAISE, <<"8", "5", "\n", "shi">>, <<"a", "b", "c">>, <<"8", "5">>,
     <<"1", "0", "0", "\n", "shi">>, <<"-", "5", "\n", "fou">>}

isna(x) == x = NaN

Call(fn, row, o, args, r) ==
    [fn |-> fn, row |-> row, failed |-> OracleFails(o), args |-> args, ret |-> r]

\* lines 106-116: read the dataset and add the output columns
Main_Read ==
    /\ UNCHANGED <<cvars, pvars>>
    /\ rpc = "init"
    /\ \E t \in InputTables :
        /\ df' = t
        /\ branch' = [i \in 1..Len(t) |-> "none"]
        /\ written' = [i \in 1..Len(t) |-> {}]
    /\ index' = 1
    /\ rpc' = "loop"
    /\ UNCHANGED <<first_result, ai_code, calls, out_csv, saves>>

\* lines 119-126: a row with a missing code is skipped
Main_Skip ==
    /\ UNCHANGED <<cvars, pvars>>
    /\ rpc = "loop"
    /\ index <= Len(df)
    /\ isna(df[index].bad_code) \/ isna(df[index].good_code)
    /\ branch' = [branch EXCEPT ![index] = "skip"]
    /\ index' = index + 1
    /\ UNCHANGED <<df, rpc, first_result, ai_code, calls, written, out_csv, saves>>

\* an exception that leaves a wrapper is not caught by main: the run ends
\* at the row it was on, and nothing is saved
Main_Crash ==
    /\ rpc' = "crashed"
    /\ UNCHANGED <<df, index, first_result, ai_code, calls, branch, written, out_csv, saves>>

\* mutant: FirstPass is asked for a row with a missing code too
Main_FirstReview_NoSkip ==
    /\ UNCHANGED <<cvars, pvars>>
    /\ rpc = "loop"
    /\ index <= Len(df)
    /\ \E o \in FirstOutcomes :
        LET res == first_review(o)
            r == res.value IN
        IF res.raised THEN Main_Crash
        ELSE
            /\ first_result' = r
            /\ calls' = Append(calls, Call("first_review", index, o, <<df[index].bad_code>>, r))
            /\ df' = [df EXCEPT ![index].first_review = r]
            /\ written' = [written EXCEPT ![index] = @ \cup {"first_review"}]
            /\ rpc' = "branch"
            /\ UNCHANGED <<index, ai_code, branch, out_csv, saves>>

\* lines 119-132: FirstPass
Main_FirstReview ==
    /\ UNCHANGED <<cvars, pvars>>
    /\ rpc = "loop"
    /\ index <= Len(df)
    /\ ~(isna(df[index].bad_code) \/ isna(df[index].good_code))
    /\ \E o \in FirstOutcomes :
        LET res == first_review(o)
            r == res.value IN
        IF res.raised THEN Main_Crash
        ELSE
            /\ first_result' = r
            /\ calls' = Append(calls, Call("first_review", index, o, <<df[index].bad_code>>, r))
            /\ df' = [df EXCEPT ![index].first_review = r]
            /\ written' = [written EXCEPT ![index] = @ \cup {"first_review"}]
            /\ rpc' = "branch"
            /\ UNCHANGED <<index, ai_code, branch, out_csv, saves>>

\* mutant: the fix is requested whatever FirstPass answered
Main_GenerateFix_Unguarded ==
    /\ UNCHANGED <<cvars, pvars>>
    /\ rpc = "branch"
    /\ \E o \in FixOutcomes :
        LET res == generate_fixed_code(df[index].bad_code, o)
            r == res.value IN
        IF res.raised THEN Main_Crash
        ELSE
            /\ ai_code' = r
            /\ calls' = Append(calls,
                  Call("generate_fixed_code", index, o, <<df[index].bad_code>>, r))
            /\ df' = [df EXCEPT ![index].ai_code = r]
            /\ written' = [written EXCEPT ![index] = @ \cup {"ai_code"}]
            /\ branch' = [branch EXCEPT ![index] = "erroneous"]
            /\ rpc' = "second"
            /\ UNCHANGED <<index, first_result, out_csv, saves>>

\* lines 135-137: FixGeneration
Main_GenerateFix ==
    /\ UNCHANGED <<cvars, pvars>>
    /\ rpc = "branch"
    /\ first_result = CUO
    /\ \E o \in FixOutcomes :
        LET res == generate_fixed_code(df[index].bad_code, o)
            r == res.value IN
        IF res.raised THEN Main_Crash
        ELSE
            /\ ai_code' = r
            /\ calls' = Append(calls,
                  Call("generate_fixed_code", index, o, <<df[index].bad_code>>, r))
            /\ df' = [df EXCEPT ![index].ai_code = r]
            /\ written' = [written EXCEPT ![index] = @ \cup {"ai_code"}]
            /\ branch' = [branch EXCEPT ![index] = "erroneous"]
            /\ rpc' = "second"
            /\ UNCHANGED <<index, first_result, out_csv, saves>>

\* lines 140-142 and 150: SecondPass, then on to the next row
Main_SecondReview ==
    /\ UNCHANGED <<cvars, pvars>>
    /\ rpc = "second"
    /\ \E o \in SecondOutcomes :
        LET res == second_review(o)
            r == res.value IN
        IF res.raised THEN Main_Crash
        ELSE
            /\ calls' = Append(calls,
                  Call("second_review", index, o,
                       <<ai_code, df[index].good_code, df[index].bad_code,
                         df[index].bug_analysis>>, r))
            /\ df' = [df EXCEPT ![index].similarity_score = r[1],
                                ![index].suitable_for_training = r[2]]
            /\ written' = [written EXCEPT ![index] =
                              @ \cup {"similarity_score", "suitable_for_training"}]
            /\ index' = index + 1
            /\ rpc' = "loop"
            /\ UNCHANGED <<first_result, ai_code, branch, out_csv, saves>>

\* mutant: the clean arm leaves the score at its initial value
Main_Clean_NoScore ==
    /\ UNCHANGED <<cvars, pvars>>
    /\ rpc = "branch"
    /\ first_result # CUO
    /\ df' = [df EXCEPT ![index].ai_code = df[index].bad_code,
                        ![index].suitable_for_training = SHI]
    /\ written' = [written EXCEPT ![index] = @ \cup {"ai_code", "suitable_for_training"}]
    /\ branch' = [branch EXCEPT ![index] = "clean"]
    /\ index' = index + 1
    /\ rpc' = "loop"
    /\ UNCHANGED <<first_result, ai_code, calls, out_csv, saves>>

\* lines 143-147 and 150: the clean arm, then on to the next row
Main_Clean ==
    /\ UNCHANGED <<cvars, pvars>>
    /\ rpc = "branch"
    /\ first_result # CUO
    /\ df' = [df EXCEPT ![index].ai_code = df[index].bad_code,
                        ![index].similarity_score = 100,
                        ![index].suitable_for_training = SHI]
    /\ written' = [written EXCEPT ![index] =
                      @ \cup {"ai_code", "similarity_score", "suitable_for_training"}]
    /\ branch' = [branch EXCEPT ![index] = "clean"]
    /\ index' = index + 1
    /\ rpc' = "loop"
    /\ UNCHANGED <<first_result, ai_code, calls, out_csv, saves>>

\* line 153: the loop is over, the table is written
Main_Save ==
    /\ UNCHANGED <<cvars, pvars>>
    /\ rpc = "loop"
    /\ index > Len(df)
    /\ out_csv' = df
    /\ saves' = saves + 1
    /\ rpc' = "done"
    /\ UNCHANGED <<df, index, first_result, ai_code, calls, branch, written>>

InitReview ==
    /\ df = <<>>
    /\ index = 1
    /\ rpc = "init"
    /\ first_result = EMPTY
    /\ ai_code = EMPTY
    /\ calls = <<>>
    /\ branch = <<>>
    /\ written = <<>>
    /\ out_csv = <<>>
    /\ saves = 0

NextReview ==
    \/ Main_Read
    \/ Main_Skip
    \/ Main_FirstReview
    \/ Main_GenerateFix
    \/ Main_SecondReview
    \/ Main_Clean
    \/ Main_Save

(***************************************************************************)
(* Text helpers of src/gerrit_AI.py.                                       *)
(***************************************************************************)
StartsWith(s, pre) == Len(s) >= Len(pre) /\ SubSeq(s, 1, Len(pre)) = pre

EndsWith(s, suf) == Len(s) >= Len(suf) /\ SubSeq(s, Len(s) - Len(suf) + 1, Len(s)) = suf

\* position of the first occurrence of pat in s, 0 when there is none
RECURSIVE FindFrom(_, _, _)
FindFrom(s, pat, k) ==
    IF k + Len(pat) - 1 > Len(s) THEN 0
    ELSE IF SubSeq(s, k, k + Len(pat) - 1) = pat THEN k
    ELSE FindFrom(s, pat, k + 1)

Find(s, pat) == FindFrom(s, pat, 1)

\* pat in s
Contains(s, pat) == Find(s, pat) # 0

\* '\n'.join(lines)
RECURSIVE Join(_)
Join(lines) ==
    IF lines = <<>> THEN <<>>
    ELSE IF Len(lines) = 1 THEN lines[1]
    ELSE lines[1] \o <<"\n">> \o Join(Tail(lines))

\* s.replace('\r\n', '\n')
RECURSIVE ReplaceCRLF(_)
ReplaceCRLF(s) ==
    IF s = <<>> THEN <<>>
    ELSE IF Len(s) >= 2 /\ s[1] = "\r" /\ s[2] = "\n"
         THEN <<"\n">> \o ReplaceCRLF(SubSeq(s, 3, Len(s)))
    ELSE <<s[1]>> \o ReplaceCRLF(Tail(s))

\* s.replace('\r', '\n')
ReplaceCR(s) == [k \in 1..Len(s) |-> IF s[k] = "\r" THEN "\n" ELSE s[k]]

\* str.lower() on the letters the subjects and keywords use
LowerChar(c) ==
    CASE c = "B" -> "b" [] c = "U" -> "u" [] c = "G" -> "g" [] c = "F" -> "f"
      [] c = "I" -> "i" [] c = "X" -> "x" [] OTHER -> c

Lower(s) == [k \in 1..Len(s) |-> LowerChar(s[k])]

(***************************************************************************)
(* GerritClient: the helpers of filter_bug_fixes.                          *)
(***************************************************************************)
COMMIT_MSG == "/COMMIT_MSG"

\* line 51, on the keys of the answer of the files endpoint
get_change_files(keys) == SelectSeq(keys, LAMBDA file_path : file_path # COMMIT_MSG)

\* line 67, on the decoded body of a successful answer
get_well_formatted_patch(decoded) ==
    ReplaceCR(ReplaceCRLF(decoded)) \o (IF ~EndsWith(decoded, <<"\n">>) THEN <<"\n">> ELSE <<>>)

\* mutant: the header line '---' is taken for a removed line
extract_bad_code_KeepsHeader(patch) ==
    LET lines == SelectSeq(SplitLines(patch),
                     LAMBDA line : StartsWith(line, <<"-">>)) IN
    Join([k \in 1..Len(lines) |-> Tail(lines[k])])

\* lines 211-217
extract_bad_code(patch) ==
    LET lines == SelectSeq(SplitLines(patch),
                     LAMBDA line : StartsWith(line, <<"-">>)
                                   /\ ~StartsWith(line, <<"-", "-", "-">>)) IN
    Join([k \in 1..Len(lines) |-> Tail(lines[k])])

\* lines 219-225
extract_good_code(patch) ==
    LET lines == SelectSeq(SplitLines(patch),
                     LAMBDA line : StartsWith(line, <<"+">>)
                                   /\ ~StartsWith(line, <<"+", "+", "+">>)) IN
    Join([k \in 1..Len(lines) |-> Tail(lines[k])])

\* the section markers of the classifier's answer format
JUDGE == <<"[", "pan", "duan", "]">>
TYPE == <<"[", "lei", "xing", "]">>
DESC == <<"[", "miao", "shu", "]">>

\* re.search(marker + '(.*)', answer): whether it matches, and group(1), the
\* rest of the line after the first occurrence of the marker
MarkerFound(answer, marker) == Contains(answer, marker)

\* mutant: the group runs to the end of the answer, not of the line
MarkerGroup_ToEndOfAnswer(answer, marker) ==
    SubSeq(answer, Find(answer, marker) + Len(marker), Len(answer))

MarkerGroup(answer, marker) ==
    LET from == Find(answer, marker) + Len(marker)
        rest == SubSeq(answer, from, Len(answer))
        nl == FirstNewline(rest, 1) IN
    IF nl = 0 THEN rest ELSE SubSeq(rest, 1, nl - 1)

\* lines 105-133, the try block of _analyze_bug_with_ai
analyze_bug_try(o) ==
    IF o = RAISE THEN [exc |-> "APIError", value |-> <<>>]
    ELSE IF o = NONE THEN [exc |-> "AttributeError", value |-> <<>>]
    ELSE LET answer == Strip(o)
             is_bug == Contains(answer, JUDGE \o SHI)
             bug_type == IF MarkerFound(answer, TYPE)
                         THEN Strip(MarkerGroup(answer, TYPE)) ELSE EMPTY
             bug_desc == IF MarkerFound(answer, DESC)
                         THEN Strip(MarkerGroup(answer, DESC)) ELSE EMPTY IN
         [exc |-> "none", value |-> <<is_bug, bug_type, bug_desc>>]

\* mutant: a failed classification is taken for an accepted one
analyze_bug_with_ai_AcceptsOnFailure(diff_content, change_subject, o) ==
    IF diff_content = EMPTY THEN Return(<<FALSE, EMPTY, EMPTY>>)
    ELSE LET t == analyze_bug_try(o) IN
         IF t.exc = "none" THEN Return(t.value) ELSE Return(<<TRUE, EMPTY, EMPTY>>)

\* lines 69-136: returns <<is_bug, bug_type, bug_desc>>
analyze_bug_with_ai(diff_content, change_subject, o) ==
    IF diff_content = EMPTY THEN Return(<<FALSE, EMPTY, EMPTY>>)
    ELSE LET t == analyze_bug_try(o) IN
         IF t.exc = "none" THEN Return(t.value) ELSE Return(<<FALSE, EMPTY, EMPTY>>)

\* line 149 and 154: re.compile('|'.join(bug_keywords), re.IGNORECASE).search;
\* the keywords of the model hold no regular-expression metacharacter, so each
\* alternative matches as a substring; the pattern of an empty list is '',
\* which matches every subject
keyword_search(keywords, subject) ==
    \/ keywords = <<>>
    \/ \E k \in 1..Len(keywords) : Contains(Lower(subject), Lower(keywords[k]))

\* lines 152-155
keyword_stage(cs, keywords) ==
    SelectSeq(cs, LAMBDA change : keyword_search(keywords, change.subject))

(***************************************************************************)
(* CorpusBuilder: download_bugfix_patches, with filter_bug_fixes inside.   *)
(***************************************************************************)
\* subjects of the changes of the project
Subjects == {<<"b", "U", "G", "s">>, <<"d", "o", "c">>}

\* keyword lists a caller configures; the first is that of line 309
KeywordLists ==
    {<<<<"B", "u", "g">>, <<"B", "U", "G">>, <<"b", "u", "g">>>>,
     <<<<"f", "i", "x">>, <<"D", "o", "c", "s">>>>}

\* a change of the list: its id, its subject and its number
Change(k, subject) == [id |-> k, subject |-> subject, number |-> k]

ChangeLists ==
    UNION {{[k \in 1..n |-> Change(k, f[k])] : f \in [1..n -> Subjects]} : n \in 0..MaxChanges}

\* the paths of a change's files
PathNames == <<"f1", "f2", "f3">>

\* keys of the answer of the files endpoint: the commit message, then the files
FileKeys == {<<COMMIT_MSG>> \o SubSeq(PathNames, 1, n) : n \in 0..MaxFiles}

\* decoded patch bodies the server answers with
RawPatches ==
    {<<"-", "a", "\n", "+", "b", "\n">>,
     <<"-", "a", "\r", "\n", "+", "b">>,
     <<"-", "-", "-", "\n", "+", "b", "\n">>,
     <<"-", " ", "\n", "+", "b", "\n">>,
     <<"-", "a", "\n">>}

\* the bodies the scan of a project meets
ScanPatches ==
    {<<"-", "a", "\r", "\n", "+", "b">>,
     <<"-", "-", "-", "\n", "+", "b", "\n">>,
     <<"-", "a", "\n">>}

\* outcomes of the BugClassifier oracle
ClassifierOutcomes ==
    {RAISE,
     JUDGE \o SHI \o <<"\n">> \o TYPE \o <<"t", "\n">> \o DESC \o <<"d">>,
     JUDGE \o FOU \o <<"\n">> \o TYPE \o <<"t", "\n">> \o DESC \o <<"d">>}

\* the name of a patch file, line 257; the paths of the model hold no '/'
FileName(number, path) == <<number, path>>

FieldNames ==
    <<"bad_code", "good_code", "bug_type", "bug_analysis", "file_path",
      "change_id", "change_number", "change_subject">>

\* lines 235-243 and 148-157: the parameters, the change list, the keyword stage
Download_Start ==
    /\ UNCHANGED <<rvars, pvars>>
    /\ cpc = "start"
    /\ \E kw \in KeywordLists, mr \in 0..MaxRetries, ok \in BOOLEAN, cs \in ChangeLists :
        /\ bug_keywords' = kw
        /\ max_retries' = mr
        /\ IF ok
           THEN /\ changes' = cs
                /\ kmc' = keyword_stage(cs, kw)
                /\ cpc' = "scan"
           ELSE \* get_project_changes raises: nothing catches it
                /\ cs = <<>>
                /\ changes' = <<>>
                /\ kmc' = <<>>
                /\ cpc' = "aborted"
    /\ UNCHANGED <<ci, files, fj, valuable_files, result, csv_data, bi, bj,
                   retry_count, listed, fetched, analysed, discarded, attempts, disk,
                   fail_log, csv_file, csv_written>>

\* lines 160-165: the next keyword-matched change, its files are listed;
\* get_change_files is called outside every try block
Filter_Change ==
    /\ UNCHANGED <<rvars, pvars>>
    /\ cpc = "scan"
    /\ ci <= Len(kmc)
    /\ listed' = listed \cup {kmc[ci].id}
    /\ \E ok \in BOOLEAN, keys \in FileKeys :
        IF ok
        THEN /\ files' = get_change_files(keys)
             /\ fj' = 1
             /\ valuable_files' = <<>>
             /\ cpc' = "files"
        ELSE \* _make_gerrit_request raises: filter_bug_fixes is left
             /\ keys = <<COMMIT_MSG>>
             /\ cpc' = "aborted"
             /\ UNCHANGED <<files, fj, valuable_files>>
    /\ UNCHANGED <<changes, bug_keywords, max_retries, kmc, ci, result, csv_data,
                   bi, bj, retry_count, fetched, analysed, discarded, attempts, disk,
                   fail_log, csv_file, csv_written>>

\* lines 169-171: the patch of a fetched body and its two halves
FilePatch(decoded) ==
    LET patch == get_well_formatted_patch(decoded) IN
    [patch |-> patch, bad_code |-> extract_bad_code(patch),
     good_code |-> extract_good_code(patch)]

\* mutant: only the added half is tested
EmptyCode_ChecksGoodOnly(fp) == Strip(fp.good_code) = EMPTY

\* line 174: a half is empty, the file is discarded before classification
EmptyCode(fp) == Strip(fp.bad_code) = EMPTY \/ Strip(fp.good_code) = EMPTY

\* lines 168-196, the body of the loop over the files: valuable_files after
\* one file, given whether the patch request succeeded, the decoded body and
\* the outcome of the oracle; every exception ends in the except arm of 194
filter_file(vf, change, file_path, ok, decoded, o) ==
    IF ~ok THEN vf
    ELSE LET fp == FilePatch(decoded) IN
         IF EmptyCode(fp) THEN vf
         ELSE LET res == analyze_bug_with_ai(fp.patch, change.subject, o) IN
              IF res.raised THEN vf
              ELSE IF res.value[1]
                   THEN Append(vf, [path |-> file_path, patch |-> fp.patch,
                                    bug_type |-> res.value[2],
                                    bug_desc |-> res.value[3],
                                    bad_code |-> fp.bad_code,
                                    good_code |-> fp.good_code])
                   ELSE vf

\* the oracle is asked about the file: line 178 is reached and the diff is
\* not empty (line 74)
OracleAsked(ok, decoded) ==
    /\ ok
    /\ ~EmptyCode(FilePatch(decoded))
    /\ FilePatch(decoded).patch # EMPTY

\* lines 167-196: one file of the change
Filter_File ==
    /\ UNCHANGED <<rvars, pvars>>
    /\ cpc = "files"
    /\ fj <= Len(files)
    /\ LET change == kmc[ci]
           file_path == files[fj] IN
       /\ fetched' = fetched \cup {<<change.id, file_path>>}
       /\ \E ok \in BOOLEAN, decoded \in ScanPatches :
           /\ ~ok => decoded = <<"-", "a", "\n">>
           /\ discarded' = IF ok /\ EmptyCode(FilePatch(decoded))
                           THEN discarded \cup {FilePatch(decoded).patch}
                           ELSE discarded
           /\ IF OracleAsked(ok, decoded)
              THEN \E o \in ClassifierOutcomes :
                       /\ valuable_files' =
                              filter_file(valuable_files, change, file_path, ok, decoded, o)
                       /\ analysed' = analysed \cup
                              {[id |-> change.id, patch |-> FilePatch(decoded).patch]}
              ELSE /\ valuable_files' =
                          filter_file(valuable_files, change, file_path, ok, decoded, RAISE)
                   /\ UNCHANGED analysed
    /\ fj' = fj + 1
    /\ UNCHANGED <<changes, bug_keywords, max_retries, kmc, ci, files, result,
                   csv_data, bi, bj, retry_count, cpc, listed, attempts, disk,
                   fail_log, csv_file, csv_written>>

\* lines 198-207: the change is kept when it has an accepted file
Filter_ChangeEnd ==
    /\ UNCHANGED <<rvars, pvars>>
    /\ cpc = "files"
    /\ fj > Len(files)
    /\ result' = IF valuable_files # <<>>
                 THEN Append(result,
                          [change_id |-> kmc[ci].id, number |-> kmc[ci].number,
                           subject |-> kmc[ci].subject, files |-> valuable_files])
                 ELSE result
    /\ ci' = ci + 1
    /\ cpc' = "scan"
    /\ UNCHANGED <<changes, bug_keywords, max_retries, kmc, files, fj,
                   valuable_files, csv_data, bi, bj, retry_count, listed,
                   fetched, analysed, discarded, attempts, disk, fail_log, csv_file,
                   csv_written>>

\* lines 209 and 243-248: filter_bug_fixes returns
Filter_Return ==
    /\ UNCHANGED <<rvars, pvars>>
    /\ cpc = "scan"
    /\ ci > Len(kmc)
    /\ csv_data' = <<>>
    /\ bi' = 1
    /\ bj' = 1
    /\ cpc' = "download"
    /\ UNCHANGED <<changes, bug_keywords, max_retries, kmc, ci, files, fj,
                   valuable_files, result, retry_count, listed, fetched,
                   analysed, discarded, attempts, disk, fail_log, csv_file, csv_written>>

\* lines 250-261: the next accepted file, or the next change
Download_NextFile ==
    /\ UNCHANGED <<rvars, pvars>>
    /\ cpc = "download"
    /\ bi <= Len(result)
    /\ IF bj <= Len(result[bi].files)
       THEN /\ retry_count' = 0
            /\ cpc' = "retry"
            /\ UNCHANGED <<bi, bj>>
       ELSE /\ bi' = bi + 1
            /\ bj' = 1
            /\ UNCHANGED <<retry_count, cpc>>
    /\ UNCHANGED <<changes, bug_keywords, max_retries, kmc, ci, files, fj,
                   valuable_files, result, csv_data, listed, fetched, analysed, discarded,
                   attempts, disk, fail_log, csv_file, csv_written>>

\* mutant: the while condition lets one more turn through
Download_Write_OneMore ==
    /\ UNCHANGED <<rvars, pvars>>
    /\ cpc = "retry"
    /\ retry_count <= max_retries
    /\ LET change == result[bi]
           file == change.files[bj]
           filename == FileName(change.number, file.path) IN
       \E ok \in BOOLEAN :
           /\ attempts' = Append(attempts, [file |-> filename, ok |-> ok])
           /\ IF ok
              THEN /\ disk' = disk \cup {filename}
                   /\ csv_data' = Append(csv_data,
                          [bad_code |-> file.bad_code, good_code |-> file.good_code,
                           bug_type |-> file.bug_type, bug_analysis |-> file.bug_desc,
                           file_path |-> file.path, change_id |-> change.change_id,
                           change_number |-> change.number,
                           change_subject |-> change.subject])
                   /\ bj' = bj + 1
                   /\ cpc' = "download"
                   /\ UNCHANGED <<retry_count, fail_log>>
              ELSE /\ retry_count' = retry_count + 1
                   /\ fail_log' = IF retry_count + 1 = max_retries
                                  THEN fail_log \cup {filename} ELSE fail_log
                   /\ UNCHANGED <<disk, csv_data, bj, cpc>>
    /\ UNCHANGED <<changes, bug_keywords, max_retries, kmc, ci, files, fj,
                   valuable_files, result, bi, listed, fetched, analysed, discarded,
                   csv_file, csv_written>>

\* mutant: a write that succeeded does not leave the while loop
Download_Write_NoBreak ==
    /\ UNCHANGED <<rvars, pvars>>
    /\ cpc = "retry"
    /\ retry_count < max_retries
    /\ LET change == result[bi]
           file == change.files[bj]
           filename == FileName(change.number, file.path) IN
       \E ok \in BOOLEAN :
           /\ attempts' = Append(attempts, [file |-> filename, ok |-> ok])
           /\ retry_count' = retry_count + 1
           /\ IF ok
              THEN /\ disk' = disk \cup {filename}
                   /\ csv_data' = Append(csv_data,
                          [bad_code |-> file.bad_code, good_code |-> file.good_code,
                           bug_type |-> file.bug_type, bug_analysis |-> file.bug_desc,
                           file_path |-> file.path, change_id |-> change.change_id,
                           change_number |-> change.number,
                           change_subject |-> change.subject])
                   /\ UNCHANGED <<fail_log, bj, cpc>>
              ELSE /\ fail_log' = IF retry_count + 1 = max_retries
                                  THEN fail_log \cup {filename} ELSE fail_log
                   /\ UNCHANGED <<disk, csv_data, bj, cpc>>
    /\ UNCHANGED <<changes, bug_keywords, max_retries, kmc, ci, files, fj,
                   valuable_files, result, bi, listed, fetched, analysed, discarded,
                   csv_file, csv_written>>

\* lines 262-284: one turn of the while loop, the write succeeds or fails
Download_Write ==
    /\ UNCHANGED <<rvars, pvars>>
    /\ cpc = "retry"
    /\ retry_count < max_retries
    /\ LET change == result[bi]
           file == change.files[bj]
           filename == FileName(change.number, file.path) IN
       \E ok \in BOOLEAN :
           /\ attempts' = Append(attempts, [file |-> filename, ok |-> ok])
           /\ IF ok
              THEN /\ disk' = disk \cup {filename}
                   /\ csv_data' = Append(csv_data,
                          [bad_code |-> file.bad_code, good_code |-> file.good_code,
                           bug_type |-> file.bug_type, bug_analysis |-> file.bug_desc,
                           file_path |-> file.path, change_id |-> change.change_id,
                           change_number |-> change.number,
                           change_subject |-> change.subject])
                   /\ bj' = bj + 1
                   /\ cpc' = "download"
                   /\ UNCHANGED <<retry_count, fail_log>>
              ELSE /\ retry_count' = retry_count + 1
                   /\ fail_log' = IF retry_count + 1 = max_retries
                                  THEN fail_log \cup {filename} ELSE fail_log
                   /\ UNCHANGED <<disk, csv_data, bj, cpc>>
    /\ UNCHANGED <<changes, bug_keywords, max_retries, kmc, ci, files, fj,
                   valuable_files, result, bi, listed, fetched, analysed, discarded,
                   csv_file, csv_written>>

\* line 262: the while condition is false, on to the next file
Download_GiveUp ==
    /\ UNCHANGED <<rvars, pvars>>
    /\ cpc = "retry"
    /\ retry_count >= max_retries
    /\ bj' = bj + 1
    /\ cpc' = "download"
    /\ UNCHANGED <<changes, bug_keywords, max_retries, kmc, ci, files, fj,
                   valuable_files, result, csv_data, bi, retry_count, listed,
                   fetched, analysed, discarded, attempts, disk, fail_log, csv_file,
                   csv_written>>

\* lines 286-297: the dataset file is written when there is a row
Download_SaveCsv ==
    /\ UNCHANGED <<rvars, pvars>>
    /\ cpc = "download"
    /\ bi > Len(result)
    /\ IF csv_data # <<>>
       THEN /\ csv_file' = [header |-> FieldNames, rows |-> csv_data]
            /\ csv_written' = TRUE
       ELSE UNCHANGED <<csv_file, csv_written>>
    /\ cpc' = "done"
    /\ UNCHANGED <<changes, bug_keywords, max_retries, kmc, ci, files, fj,
                   valuable_files, result, csv_data, bi, bj, retry_count, listed,
                   fetched, analysed, discarded, attempts, disk, fail_log>>

InitCorpus ==
    /\ changes = <<>>
    /\ bug_keywords = <<>>
    /\ max_retries = 0
    /\ kmc = <<>>
    /\ ci = 1
    /\ files = <<>>
    /\ fj = 1
    /\ valuable_files = <<>>
    /\ result = <<>>
    /\ csv_data = <<>>
    /\ bi = 1
    /\ bj = 1
    /\ retry_count = 0
    /\ cpc = "start"
    /\ listed = {}
    /\ fetched = {}
    /\ analysed = {}
    /\ discarded = {}
    /\ attempts = <<>>
    /\ disk = {}
    /\ fail_log = {}
    /\ csv_file = [header |-> <<>>, rows |-> <<>>]
    /\ csv_written = FALSE

NextCorpus ==
    \/ Download_Start
    \/ Filter_Change
    \/ Filter_File
    \/ Filter_ChangeEnd
    \/ Filter_Return
    \/ Download_NextFile
    \/ Download_Write
    \/ Download_GiveUp
    \/ Download_SaveCsv

(***************************************************************************)
(* One call of second_review on a reply of the oracle.                     *)
(***************************************************************************)
\* characters of the replies
ReplyAlphabet == {"8", "5", "-", " ", "\n", "a", "shi"}

\* every reply of at most MaxReplyLen characters, the two replies of the
\* documented scenario, and the two failures
SecondReplies ==
    UNION {[1..n -> ReplyAlphabet] : n \in 0..MaxReplyLen}
        \cup {<<"8", "5", "\n", "shi">>, <<"a", "b", "c">>, RAISE, NONE}

Call_second_review ==
    /\ UNCHANGED <<rvars, cvars>>
    /\ ppc = "in"
    /\ ret' = second_review(arg)
    /\ ppc' = "out"
    /\ UNCHANGED arg

(***************************************************************************)
(* One call of _analyze_bug_with_ai, and the step of filter_bug_fixes on   *)
(* one file around it.                                                     *)
(***************************************************************************)
\* pieces the answers of the classifier are made of
ReplyFragments == {JUDGE, TYPE, DESC, SHI, FOU, <<"t">>, <<" ">>, <<"\n">>}

RECURSIVE Concat(_)
Concat(ss) == IF ss = <<>> THEN <<>> ELSE Head(ss) \o Concat(Tail(ss))

\* every answer of at most MaxFragments pieces, and the two failures
ClassifierReplies ==
    {Concat(f) : f \in UNION {[1..n -> ReplyFragments] : n \in 0..MaxFragments}}
        \cup {RAISE, NONE}

\* a diff handed to _analyze_bug_with_ai directly
Diffs == {EMPTY, <<"-", "a", "\n", "+", "b", "\n">>}

ClassifyInputs ==
    [diff_content : Diffs, change_subject : Subjects, o : ClassifierReplies,
     decoded : RawPatches]

Call_analyze_bug_with_ai ==
    /\ UNCHANGED <<rvars, cvars>>
    /\ ppc = "in"
    /\ ret' = [res |-> analyze_bug_with_ai(arg.diff_content, arg.change_subject, arg.o),
               vf |-> filter_file(<<>>, Change(1, arg.change_subject), "f1",
                                  TRUE, arg.decoded, arg.o)]
    /\ ppc' = "out"
    /\ UNCHANGED arg

NextClassify == Call_analyze_bug_with_ai

InitPure ==
    /\ arg = EMPTY
    /\ ret = Return(EMPTY)
    /\ ppc = "idle"

NextSecond == Call_second_review

(***************************************************************************)
(* Specifications.                                                         *)
(***************************************************************************)
Init == InitReview /\ InitCorpus /\ InitPure

\* the ReviewLoop run
SpecReview == Init /\ [][NextReview]_vars

\* the CorpusBuilder run
SpecCorpus == Init /\ [][NextCorpus]_vars

\* second_review on every reply of the bounded set
InitSecond ==
    /\ InitReview
    /\ InitCorpus
    /\ arg \in SecondReplies
    /\ ret = Return(EMPTY)
    /\ ppc = "in"

SpecSecond == InitSecond /\ [][NextSecond]_vars

\* _analyze_bug_with_ai on every answer of the bounded set
InitClassify ==
    /\ InitReview
    /\ InitCorpus
    /\ arg \in ClassifyInputs
    /\ ret = Return(EMPTY)
    /\ ppc = "in"

SpecClassify == InitClassify /\ [][NextClassify]_vars

(***************************************************************************)
(* ReviewLoop properties.                                                  *)
(***************************************************************************)
Rows == 1..Len(df)

\* the oracle wrappers called for row i, in call order
RowFns(i) ==
    LET cs == SelectSeq(calls, LAMBDA c : c.row = i) IN
    [k \in 1..Len(cs) |-> cs[k].fn]

\* the FirstPass oracle call of row i raised
FirstRaised(i) ==
    \E k \in 1..Len(calls) :
        calls[k].fn = "first_review" /\ calls[k].row = i /\ calls[k].failed

\* the loop has left row i
RowLeft(i) == index > i

FullSequence == <<"first_review", "generate_fixed_code", "second_review">>

IsPrefix(s, t) == Len(s) <= Len(t) /\ \A k \in 1..Len(s) : s[k] = t[k]

\* C1: a row whose FirstPass oracle call raised has first_review "wrong", never
\* takes the clean arm, and once the loop has left it generate_fixed_code and
\* then second_review have been called for it.
C1_FirstPassFailureRoutesErroneous ==
    \A i \in Rows :
        FirstRaised(i) =>
            /\ df[i].first_review = CUO
            /\ branch[i] # "clean"
            /\ RowLeft(i) =>
                /\ branch[i] = "erroneous"
                /\ RowFns(i) = FullSequence

C1_Witness ==
    \E i \in Rows : FirstRaised(i) /\ RowLeft(i) /\ branch[i] = "erroneous"

\* C2: a row that took the clean arm has score 100, verdict "yes" and ai_code
\* equal to its bad_code, in the table and in the file written from it, and
\* neither generate_fixed_code nor second_review was called for it.
C2_CleanBranchValues ==
    \A i \in Rows :
        branch[i] = "clean" =>
            /\ RowFns(i) = <<"first_review">>
            /\ df[i].similarity_score = 100
            /\ df[i].suitable_for_training = SHI
            /\ df[i].ai_code = df[i].bad_code
            /\ rpc = "done" =>
                /\ out_csv[i].similarity_score = 100
                /\ out_csv[i].suitable_for_training = SHI
                /\ out_csv[i].ai_code = out_csv[i].bad_code

C2_Witness ==
    /\ rpc = "done"
    /\ \E i \in Rows : branch[i] = "clean" /\ df[i].first_review = DUI
    /\ \E i \in Rows : branch[i] = "erroneous"

\* what holds of the call log in every state
C3_State ==
    /\ \A i \in Rows : IsPrefix(RowFns(i), FullSequence)
    /\ \A k \in 1..Len(calls) :
        /\ k > 1 => calls[k - 1].row <= calls[k].row
        /\ calls[k].fn = "generate_fixed_code" =>
            /\ k > 1
            /\ calls[k - 1].fn = "first_review"
            /\ calls[k - 1].row = calls[k].row
            /\ calls[k - 1].ret = CUO
        /\ calls[k].fn = "second_review" =>
            /\ k > 1
            /\ calls[k - 1].fn = "generate_fixed_code"
            /\ calls[k - 1].row = calls[k].row
            /\ calls[k].args[1] = calls[k - 1].ret

\* what holds of every step that makes an oracle call
C3_Step ==
    calls' # calls =>
        LET c == calls'[Len(calls')] IN
        \A i \in 1..(c.row - 1) : branch[i] = "skip" \/ written[i] = OutputColumns

\* C3: per row the oracle calls are FirstPass, FixGeneration, SecondPass in
\* that order; FixGeneration follows a FirstPass that answered "wrong";
\* SecondPass follows the FixGeneration of the same row and gets its result as
\* ai_code; a call for a row is made only when every earlier row was skipped
\* or has all four output columns written.
C3_CallOrder == []C3_State /\ [][C3_Step]_vars

C3_Witness ==
    /\ Len(df) >= 2
    /\ RowFns(1) = FullSequence
    /\ RowFns(2) = FullSequence
    /\ calls[Len(calls)].args[1] # df[2].bad_code

(***************************************************************************)
(* second_review properties.                                               *)
(***************************************************************************)
\* the lines of a text, a final newline ending the last line
TextLines(s) ==
    LET ls == SplitLines(s) IN
    IF Len(ls) > 1 /\ ls[Len(ls)] = <<>> THEN SubSeq(ls, 1, Len(ls) - 1) ELSE ls

\* the pair the claim gives for a reply whose lines are ls
PairOfLines(ls) ==
    IF ~IntOk(ls[1]) THEN <<0, FOU>>
    ELSE IF Len(ls) > 1 THEN <<IntVal(ls[1]), ls[2]>>
    ELSE <<IntVal(ls[1]), FOU>>

\* C4 as stated: second_review never raises; a failure of the oracle gives
\* (0, "no"); otherwise the pair is read off the first and second line of the
\* reply.
C4_Original ==
    ppc = "out" =>
        /\ ~ret.raised
        /\ ret.value = IF OracleFails(arg) THEN <<0, FOU>> ELSE PairOfLines(TextLines(arg))

\* C4 amended: second_review never raises; a failure of the oracle gives
\* (0, "no"); otherwise the pair is read off the first and second line of the
\* reply with its leading and trailing whitespace removed.  The reply
\* "85\nyes" gives (85, "yes") and the reply "abc" gives (0, "no").
C4_SecondReviewReadsTrimmedReply ==
    ppc = "out" =>
        /\ ~ret.raised
        /\ ret.value = IF OracleFails(arg) THEN <<0, FOU>>
                       ELSE PairOfLines(SplitLines(Strip(arg)))
        /\ arg = <<"8", "5", "\n", "shi">> => ret.value = <<85, SHI>>
        /\ arg = <<"a", "b", "c">> => ret.value = <<0, FOU>>
        /\ arg = <<"8", "5">> => ret.value = <<85, FOU>>

C4_Witness ==
    /\ ppc = "out"
    /\ arg = <<"\n", "8", "\n", "shi">>
    /\ ret.value = <<8, SHI>>

(***************************************************************************)
(* BugClassifier properties.                                               *)
(***************************************************************************)
\* C5: _analyze_bug_with_ai never raises, and when the oracle call or the
\* reading of its answer fails the result is (False, "", "") and the step of
\* filter_bug_fixes on that file accepts nothing.
C5_ClassifierFailureIsReject ==
    ppc = "out" =>
        /\ ~ret.res.raised
        /\ OracleFails(arg.o) =>
            /\ ret.res.value = <<FALSE, EMPTY, EMPTY>>
            /\ ret.vf = <<>>

C5_Witness ==
    /\ ppc = "out"
    /\ arg.o = NONE
    /\ arg.diff_content # EMPTY
    /\ OracleAsked(TRUE, arg.decoded)
    /\ ret.vf = <<>>

(***************************************************************************)
(* CorpusBuilder properties.                                               *)
(***************************************************************************)
\* the patch has a removed line / an added line that is no file header
HasRemovalLine(patch) ==
    LET ls == SplitLines(patch) IN
    \E k \in 1..Len(ls) :
        StartsWith(ls[k], <<"-">>) /\ ~StartsWith(ls[k], <<"-", "-", "-">>)

HasAdditionLine(patch) ==
    LET ls == SplitLines(patch) IN
    \E k \in 1..Len(ls) :
        StartsWith(ls[k], <<"+">>) /\ ~StartsWith(ls[k], <<"+", "+", "+">>)

BothHalves(r) == r.bad_code # EMPTY /\ r.good_code # EMPTY

\* C6: every entry of valuable_files, of the changes kept and every dataset
\* row has a non-empty bad_code and good_code, and the oracle was asked only
\* about patches with a removed and an added line.
C6_NoEmptyCodeRecord ==
    /\ \A k \in 1..Len(valuable_files) : BothHalves(valuable_files[k])
    /\ \A b \in 1..Len(result) :
        \A j \in 1..Len(result[b].files) : BothHalves(result[b].files[j])
    /\ \A k \in 1..Len(csv_data) : BothHalves(csv_data[k])
    /\ \A k \in 1..Len(csv_file.rows) : BothHalves(csv_file.rows[k])
    /\ \A e \in analysed : HasRemovalLine(e.patch) /\ HasAdditionLine(e.patch)

C6_Witness ==
    /\ cpc = "done"
    /\ csv_file.rows # <<>>
    /\ \E d \in discarded : ~HasRemovalLine(d) \/ ~HasAdditionLine(d)

\* the accepted files, as <<b, j>>: file j of kept change b
AcceptedFiles ==
    UNION {{<<b, j>> : j \in 1..Len(result[b].files)} : b \in 1..Len(result)}

NameOf(p) == FileName(result[p[1]].number, result[p[1]].files[p[2]].path)

\* the retry loop of accepted file p is over
LoopOver(p) ==
    /\ cpc \in {"download", "retry", "done"}
    /\ bi > p[1] \/ (bi = p[1] /\ bj > p[2])

AttemptsOf(p) == SelectSeq(attempts, LAMBDA a : a.file = NameOf(p))

AllFailed(p) == \A k \in 1..Len(attempts) : attempts[k].file = NameOf(p) => ~attempts[k].ok

\* no exception leaves the retry loop: the run is aborted only before the
\* first write, and at the end every accepted file has had its loop
DownloadGoesOn ==
    /\ cpc = "aborted" => attempts = <<>>
    /\ cpc = "done" => \A p \in AcceptedFiles : LoopOver(p)

\* C7 as stated: for every max_retries, a file whose writes all failed was
\* tried exactly max_retries times and line 284 reported it; the loop raises
\* nothing and the next file is processed.
C7_Original ==
    /\ DownloadGoesOn
    /\ \A p \in AcceptedFiles :
        LoopOver(p) /\ AllFailed(p) =>
            /\ Len(AttemptsOf(p)) = max_retries
            /\ NameOf(p) \in fail_log

\* C7 amended: a file whose writes all failed was tried exactly max_retries
\* times; line 284 reported it when max_retries is at least 1, and with
\* max_retries 0 no write is tried and nothing is reported; the loop raises
\* nothing and the next file is processed.
C7_RetryGivesUp ==
    /\ DownloadGoesOn
    /\ \A p \in AcceptedFiles :
        LoopOver(p) /\ AllFailed(p) =>
            /\ Len(AttemptsOf(p)) = max_retries
            /\ NameOf(p) \in fail_log <=> max_retries >= 1
            /\ NameOf(p) \notin disk

C7_Witness ==
    /\ cpc = "done"
    /\ max_retries = MaxRetries
    /\ Len(result) >= 2
    /\ AllFailed(<<1, 1>>)
    /\ Len(AttemptsOf(<<1, 1>>)) = MaxRetries
    /\ NameOf(<<2, 1>>) \in disk

\* C8: an exception while a change or a file is processed never ends the
\* scan: once filter_bug_fixes has started on the changes it is not left by
\* an exception.
C8_ScanNeverAborts == ~(cpc = "aborted" /\ listed # {})

\* the rows of the dataset file are the accepted records
RowOf(p) ==
    LET change == result[p[1]]
        file == change.files[p[2]] IN
    [bad_code |-> file.bad_code, good_code |-> file.good_code,
     bug_type |-> file.bug_type, bug_analysis |-> file.bug_desc,
     file_path |-> file.path, change_id |-> change.change_id,
     change_number |-> change.number, change_subject |-> change.subject]

\* C9: when download_bugfix_patches is over, every accepted record is a row
\* of bugfix_analysis.csv, whose columns are in the fixed order (stated for
\* the runs that try each write at least once).
C9_EveryAcceptedRecordIsARow ==
    cpc = "done" /\ max_retries >= 1 =>
        /\ \A p \in AcceptedFiles :
            /\ csv_written
            /\ \E k \in 1..Len(csv_file.rows) : csv_file.rows[k] = RowOf(p)
        /\ csv_written => csv_file.header = FieldNames

\* the subject holds one of the keywords, letter case ignored
MatchesKeyword(subject) ==
    \E k \in 1..Len(bug_keywords) : Contains(Lower(subject), Lower(bug_keywords[k]))

MatchingIds == {changes[k].id : k \in {n \in 1..Len(changes) : MatchesKeyword(changes[n].subject)}}

\* C10: no file listing, patch request or oracle call is made for a change
\* the keyword stage rejected, and when filter_bug_fixes is over the changes
\* that reached the oracle stage are exactly those whose subject matches.
C10_OracleStageIffKeywordMatch ==
    /\ listed \subseteq MatchingIds
    /\ \A f \in fetched : f[1] \in MatchingIds
    /\ \A e \in analysed : e.id \in MatchingIds
    /\ cpc \in {"download", "retry", "done", "aborted"} => listed = MatchingIds


(***************************************************************************)
(* PatchSplitter: _extract_bad_code and _extract_good_code on one patch.   *)
(***************************************************************************)
MaxPatchLen == 6

\* characters of the patches
PatchAlphabet == {"-", "+", "a", "\n"}

\* the diff of the documented scenario
ScenarioDiff ==
    <<"-", "i", "n", "t", " ", "x", " ", "=", " ", "1", ";", "\n",
      "+", "i", "n", "t", " ", "x", " ", "=", " ", "2", ";", "\n">>

\* every patch of at most MaxPatchLen characters, and the scenario's diff
Patches ==
    UNION {[1..n -> PatchAlphabet] : n \in 0..MaxPatchLen} \cup {ScenarioDiff}

Call_extract_bad_code ==
    /\ UNCHANGED <<rvars, cvars>>
    /\ ppc = "in"
    /\ ret' = [bad |-> extract_bad_code(arg), good |-> EMPTY]
    /\ ppc' = "bad"
    /\ UNCHANGED arg

Call_extract_good_code ==
    /\ UNCHANGED <<rvars, cvars>>
    /\ ppc = "bad"
    /\ ret' = [ret EXCEPT !.good = extract_good_code(arg)]
    /\ ppc' = "out"
    /\ UNCHANGED arg

NextSplit ==
    \/ Call_extract_bad_code
    \/ Call_extract_good_code

InitSplit ==
    /\ InitReview
    /\ InitCorpus
    /\ arg \in Patches
    /\ ret = Return(EMPTY)
    /\ ppc = "in"

\* the two extractions on every patch of the bounded set
SpecSplit == InitSplit /\ [][NextSplit]_vars

(***************************************************************************)
(* PatchSplitter properties.                                               *)
(***************************************************************************)
\* a line marked with m: it starts with m and not with three of them
IsMarked(line, m) ==
    /\ line # <<>>
    /\ line[1] = m
    /\ ~(Len(line) >= 3 /\ line[2] = m /\ line[3] = m)

\* the marked lines of ls, in their order, without their first character
RECURSIVE MarkedLines(_, _)
MarkedLines(ls, m) ==
    IF ls = <<>> THEN <<>>
    ELSE (IF IsMarked(Head(ls), m)
          THEN <<SubSeq(Head(ls), 2, Len(Head(ls)))>> ELSE <<>>)
         \o MarkedLines(Tail(ls), m)

\* C11: the before-code of a patch is its lines that start with '-' and not
\* with '---', in their order, each without its first character, joined by
\* newlines; the after-code is the same for '+' and '+++'; no other line
\* contributes.  The scenario's diff splits to 'int x = 1;' and 'int x = 2;'.
C11_SplitterKeepsMarkedLines ==
    /\ ppc \in {"bad", "out"} =>
        ret.bad = Join(MarkedLines(SplitLines(arg), "-"))
    /\ ppc = "out" =>
        /\ ret.good = Join(MarkedLines(SplitLines(arg), "+"))
        /\ arg = ScenarioDiff =>
            /\ ret.bad = <<"i", "n", "t", " ", "x", " ", "=", " ", "1", ";">>
            /\ ret.good = <<"i", "n", "t", " ", "x", " ", "=", " ", "2", ";">>

C11_Witness ==
    /\ ppc = "out"
    /\ arg = <<"-", "-", "-", "\n", "-", "a">>
    /\ ret.bad = <<"a">>
    /\ ret.good = EMPTY


(***************************************************************************)
(* ReviewLoop properties: scores, skipped rows, the clean arm.             *)
(***************************************************************************)
\* C12: in the table that main writes, the similarity_score of every row is
\* an integer from 0 to 100, whatever SecondPass answered.
C12_ScoreInRange ==
    rpc = "done" => \A i \in 1..Len(out_csv) : out_csv[i].similarity_score \in 0..100

\* row i has no bad_code or no good_code
Missing(i) == isna(df[i].bad_code) \/ isna(df[i].good_code)

\* a row with a missing code has no oracle call and the columns of lines
\* 113-116 as they were added
C13_State ==
    \A i \in Rows :
        Missing(i) =>
            /\ RowFns(i) = <<>>
            /\ written[i] = {}
            /\ df[i] = NewRow(df[i].bad_code, df[i].good_code, df[i].bug_analysis)
            /\ RowLeft(i) => branch[i] = "skip"
            /\ rpc = "done" => out_csv[i] = df[i]

\* the step over a row with a missing code changes no row and calls nothing
C13_Step ==
    (rpc = "loop" /\ index <= Len(df) /\ Missing(index)) =>
        /\ df' = df
        /\ calls' = calls
        /\ written' = written
        /\ index' = index + 1

\* C13: a row whose bad_code or good_code is missing is skipped: no oracle is
\* called for it, its four output columns keep their initial values, and the
\* skip leaves every other row as it was.
C13_MissingRowIsSkipped == []C13_State /\ [][C13_Step]_vars

C13_Witness ==
    /\ rpc = "done"
    /\ Len(df) = 2
    /\ Missing(1)
    /\ branch[1] = "skip"
    /\ branch[2] = "erroneous"
    /\ out_csv[1].similarity_score = 0

\* C18: a row takes the clean arm only when the answer of FirstPass is the
\* token "right"; any other answer does not mark the row clean.
C18_CleanOnlyOnRight ==
    \A i \in Rows : branch[i] = "clean" => df[i].first_review = DUI


(***************************************************************************)
(* ReviewLoop: termination.  main is one sequential loop, so a step that   *)
(* can be taken is taken.                                                  *)
(***************************************************************************)
SpecReviewLive == Init /\ [][NextReview]_vars /\ WF_vars(NextReview)

\* row i has both codes
Present(i) == ~isna(df[i].bad_code) /\ ~isna(df[i].good_code)

\* some call of wrapper fn for row i met a failing oracle
CallFailed(i, fn) ==
    \E k \in 1..Len(calls) : calls[k].row = i /\ calls[k].fn = fn /\ calls[k].failed

C19_State ==
    /\ rpc # "crashed"
    /\ saves <= 1
    /\ saves = 1 <=> rpc = "done"
    /\ \A i \in Rows : RowLeft(i) /\ Present(i) => written[i] = OutputColumns
    /\ rpc = "done" =>
        /\ index = Len(df) + 1
        /\ out_csv = df

\* the loop goes through the rows one by one, in order, and the table is
\* written only after the last of them
C19_Step ==
    /\ index' = index \/ (index' = index + 1 /\ index <= Len(df))
    /\ saves' # saves => (saves' = saves + 1 /\ index > Len(df) /\ index' = index)

\* C19: whichever oracle calls fail, the run ends: the rows are visited once
\* each in dataset order, every row that has both codes ends with its four
\* output columns set, and the table is written once, after the last row.
C19_RunTerminates ==
    /\ <>(rpc = "done")
    /\ []C19_State
    /\ [][C19_Step]_vars

C19_Witness ==
    /\ rpc = "done"
    /\ saves = 1
    /\ Len(df) = 2
    /\ CallFailed(1, "first_review")
    /\ CallFailed(1, "generate_fixed_code")
    /\ CallFailed(1, "second_review")
    /\ written[2] = OutputColumns


(***************************************************************************)
(* VersionControlGateway: one read operation on one answer of the server.  *)
(* The operations are _make_gerrit_request (behind get_project_changes and *)
(* get_change_files) and get_well_formatted_patch of src/gerrit_AI.py,     *)
(* get_changes of src/get.py and get_commit_diff of src/gitlab.py.         *)
(***************************************************************************)
MaxDecodedLen == 4

\* status codes of the answers
StatusCodes == {200, 201, 204, 206, 304, 400, 404, 500}

\* bodies of the JSON endpoints: a document, a document behind Gerrit's
\* prefix line, and a text that is no document
JsonBody == <<"{", "}">>
PrefixedBody == <<")", "]", "}", "'", "\n", "{", "}">>
GarbageBody == <<"{">>
JsonBodies == {JsonBody, PrefixedBody, GarbageBody}

\* decoded bodies of the patch endpoint
DecodedAlphabet == {"\r", "\n", "a"}
DecodedBodies == UNION {[1..n -> DecodedAlphabet] : n \in 0..MaxDecodedLen}

\* an exception with what it carries
RaisesWith(e) == [raised |-> TRUE, value |-> e]

HttpFailure(status) == RaisesWith(<<"HTTP", status>>)

\* json.loads, yaml.safe_load and Response.json on the bodies of the model
loads(text) ==
    IF Strip(text) = JsonBody THEN Return(<<"dict">>)
    ELSE RaisesWith(<<"DecodeError">>)

\* requests.Response.ok: raise_for_status raises for 400..599 only
response_ok(status) == ~(status >= 400 /\ status < 600)

\* src/gerrit_AI.py lines 32-40
make_gerrit_request(status, text) ==
    IF status = 200
    THEN LET content == Strip(text) IN
         IF StartsWith(content, <<")", "]", "}", "'">>)
         THEN loads(SubSeq(content, 5, Len(content)))
         ELSE loads(content)
    ELSE HttpFailure(status)

\* src/gerrit_AI.py lines 58-67
get_well_formatted_patch_response(status, decoded) ==
    IF ~response_ok(status) THEN HttpFailure(status)
    ELSE Return(get_well_formatted_patch(decoded))

\* src/get.py lines 60-65
check_response(status) == IF status # 200 THEN HttpFailure(status) ELSE Return(EMPTY)

\* src/get.py lines 67-71
parse_gerrit_response(response_text) ==
    IF StartsWith(response_text, <<")", "]", "}", "'">>)
    THEN loads(SubSeq(response_text, 5, Len(response_text)))
    ELSE loads(response_text)

\* src/get.py lines 20-26
get_changes(status, text) ==
    IF check_response(status).raised THEN check_response(status)
    ELSE parse_gerrit_response(text)

\* src/gitlab.py lines 79-82: the status of the answer is not looked at
get_commit_diff(status, text) == loads(text)

GatewayInputs ==
    [op : {"_make_gerrit_request", "get_changes", "get_commit_diff"},
     status : StatusCodes, body : JsonBodies]
        \cup [op : {"get_well_formatted_patch"}, status : StatusCodes,
              body : DecodedBodies]

\* what a call leaves: its outcome and the number of requests it sent
Answer(res, n) == [raised |-> res.raised, value |-> res.value, requests |-> n]

Call_make_gerrit_request ==
    /\ UNCHANGED <<rvars, cvars>>
    /\ ppc = "in"
    /\ arg.op = "_make_gerrit_request"
    /\ ret' = Answer(make_gerrit_request(arg.status, arg.body), 1)
    /\ ppc' = "out"
    /\ UNCHANGED arg

Call_get_well_formatted_patch ==
    /\ UNCHANGED <<rvars, cvars>>
    /\ ppc = "in"
    /\ arg.op = "get_well_formatted_patch"
    /\ ret' = Answer(get_well_formatted_patch_response(arg.status, arg.body), 1)
    /\ ppc' = "out"
    /\ UNCHANGED arg

Call_get_changes ==
    /\ UNCHANGED <<rvars, cvars>>
    /\ ppc = "in"
    /\ arg.op = "get_changes"
    /\ ret' = Answer(get_changes(arg.status, arg.body), 1)
    /\ ppc' = "out"
    /\ UNCHANGED arg

Call_get_commit_diff ==
    /\ UNCHANGED <<rvars, cvars>>
    /\ ppc = "in"
    /\ arg.op = "get_commit_diff"
    /\ ret' = Answer(get_commit_diff(arg.status, arg.body), 1)
    /\ ppc' = "out"
    /\ UNCHANGED arg

NextGateway ==
    \/ Call_make_gerrit_request
    \/ Call_get_well_formatted_patch
    \/ Call_get_changes
    \/ Call_get_commit_diff

InitGateway ==
    /\ InitReview
    /\ InitCorpus
    /\ arg \in GatewayInputs
    /\ ret = Return(EMPTY)
    /\ ppc = "in"

SpecGateway == InitGateway /\ [][NextGateway]_vars

(***************************************************************************)
(* VersionControlGateway properties.                                       *)
(***************************************************************************)
\* the decoded text with every CRLF and every lone CR turned into LF
Normalised(decoded) == ReplaceCR(ReplaceCRLF(decoded))

\* C14: the text get_well_formatted_patch returns for a fetched body is the
\* normalised text, with one LF added exactly when the normalised text does
\* not end with one; it holds no CR and ends with LF.
C14_PatchNormalised ==
    (ppc = "out" /\ arg.op = "get_well_formatted_patch" /\ ~ret.raised) =>
        LET n == Normalised(arg.body) IN
        /\ ret.value = n \o (IF EndsWith(n, <<"\n">>) THEN <<>> ELSE <<"\n">>)
        /\ \A k \in 1..Len(ret.value) : ret.value[k] # "\r"
        /\ EndsWith(ret.value, <<"\n">>)

Is2xx(status) == status \in 200..299

\* the body is one the operation can read
Readable(op, text) ==
    \/ op = "get_well_formatted_patch"
    \/ text = JsonBody
    \/ (text = PrefixedBody /\ op # "get_commit_diff")

\* C15: a read operation sends one request; it raises a failure that carries
\* the status when the answer is not 2xx, so that nothing read from such an
\* answer is returned; it returns normally when the answer is 2xx.
C15_GatewayFailsOnNon2xx ==
    ppc = "out" =>
        /\ ret.requests = 1
        /\ ~Is2xx(arg.status) => (ret.raised /\ ret.value = <<"HTTP", arg.status>>)
        /\ (Is2xx(arg.status) /\ Readable(arg.op, arg.body)) => ~ret.raised


(***************************************************************************)
(* Manifest parsing: MParser.run of src/utils/menifest_paeser.py.          *)
(***************************************************************************)
MaxProjects == 2

\* what Element.get gives for an attribute the element does not have
None == "<None>"

\* the remote elements of the manifests: name and fetch URL
RemoteNames == {"origin", "other"}
Fetch(name) == IF name = "origin" THEN "http://o" ELSE "http://x"

\* the project elements: revision and remote are optional
ProjectElements ==
    [name : {"p"}, revision : {None, "r1"}, remote : {None} \cup RemoteNames]

\* the default element
DefaultElements == [remote : {"origin"}, revision : {"main", "dev"}]

Manifests ==
    [default : DefaultElements,
     projects : UNION {[1..n -> ProjectElements] : n \in 0..MaxProjects}]

\* str.format of a value inside an f-string
Format(x) == IF x = None THEN "None" ELSE x

\* lines 11-26: the remotes and the default are read
Run_Remotes ==
    /\ UNCHANGED <<rvars, cvars>>
    /\ ppc = "in"
    /\ ret' = [remotes |-> [n \in RemoteNames |-> Fetch(n)],
               default |-> [name |-> arg.default.remote,
                            revision |-> arg.default.revision],
               projects |-> <<>>]
    /\ ppc' = "loop"
    /\ UNCHANGED arg

\* lines 29-38: the descriptor of one project element
Descriptor(_pObj, remotes, default) ==
    LET rev == _pObj.revision
        _r == IF _pObj.remote = None THEN remotes[default.name]
              ELSE remotes[_pObj.remote]
        _n == _pObj.name IN
    [branch |-> IF rev # None THEN rev ELSE default.revision,
     target |-> <<_r, "/", _n, " -b ", Format(rev)>>]

\* lines 28-39: one turn of the loop over the project elements
Run_Project ==
    /\ UNCHANGED <<rvars, cvars>>
    /\ ppc = "loop"
    /\ Len(ret.projects) < Len(arg.projects)
    /\ ret' = [ret EXCEPT !.projects =
                  Append(@, Descriptor(arg.projects[Len(ret.projects) + 1],
                                       ret.remotes, ret.default))]
    /\ UNCHANGED <<arg, ppc>>

\* line 40
Run_Return ==
    /\ UNCHANGED <<rvars, cvars>>
    /\ ppc = "loop"
    /\ Len(ret.projects) = Len(arg.projects)
    /\ ppc' = "out"
    /\ UNCHANGED <<arg, ret>>

NextManifest ==
    \/ Run_Remotes
    \/ Run_Project
    \/ Run_Return

InitManifest ==
    /\ InitReview
    /\ InitCorpus
    /\ arg \in Manifests
    /\ ret = Return(EMPTY)
    /\ ppc = "in"

SpecManifest == InitManifest /\ [][NextManifest]_vars

(***************************************************************************)
(* Manifest properties.                                                    *)
(***************************************************************************)
\* the revision and the fetch URL a project element inherits or has
RevisionOf(p) == IF p.revision # None THEN p.revision ELSE arg.default.revision
FetchOf(p) == IF p.remote # None THEN Fetch(p.remote) ELSE Fetch(arg.default.remote)

\* C16: for every project element, the branch of its descriptor and the
\* branch in its target are the project's own revision, or the default's
\* when it has none, and the URL in the target is that of the project's own
\* remote, or of the default's when it has none.
C16_DescriptorInheritsDefaults ==
    ppc = "out" =>
        /\ Len(ret.projects) = Len(arg.projects)
        /\ \A k \in 1..Len(arg.projects) :
            LET p == arg.projects[k] IN
            /\ ret.projects[k].branch = RevisionOf(p)
            /\ ret.projects[k].target = <<FetchOf(p), "/", p.name, " -b ", RevisionOf(p)>>


(***************************************************************************)
(* BugClassifier properties: reading the answer.                           *)
(***************************************************************************)
\* the first of the lines ls that holds the marker, <<>> when none does
RECURSIVE FirstLineWith(_, _)
FirstLineWith(ls, marker) ==
    IF ls = <<>> THEN <<>>
    ELSE IF Contains(Head(ls), marker) THEN Head(ls)
    ELSE FirstLineWith(Tail(ls), marker)

\* the trimmed rest of the line after the first marker of the reply, the
\* empty text when the reply has no such marker
FieldOf(reply, marker) ==
    LET line == FirstLineWith(SplitLines(reply), marker) IN
    IF ~Contains(line, marker) THEN EMPTY
    ELSE Strip(SubSeq(line, Find(line, marker) + Len(marker), Len(line)))

\* C17: for every reply text, is_bug is true only when the reply holds the
\* judgment marker directly followed by "yes", bug_type is the trimmed rest
\* of the line after the first type marker and the description the trimmed
\* rest of the line after the first description marker; a field whose marker
\* is missing is empty (false for the judgment), and nothing is raised.
C17_ReplyFieldsRead ==
    (ppc = "out" /\ arg.diff_content # EMPTY /\ ~OracleFails(arg.o)) =>
        /\ ~ret.res.raised
        /\ ret.res.value[1] = Contains(arg.o, JUDGE \o SHI)
        /\ ret.res.value[2] = FieldOf(arg.o, TYPE)
        /\ ret.res.value[3] = FieldOf(arg.o, DESC)
        /\ ~Contains(arg.o, JUDGE) => ret.res.value[1] = FALSE
        /\ ~Contains(arg.o, TYPE) => ret.res.value[2] = EMPTY
        /\ ~Contains(arg.o, DESC) => ret.res.value[3] = EMPTY

C17_Witness ==
    /\ ppc = "out"
    /\ arg.diff_content # EMPTY
    /\ arg.o = TYPE \o <<" ", "t">>
    /\ ret.res.value = <<FALSE, <<"t">>, EMPTY>>


(***************************************************************************)
(* CorpusBuilder properties: the retry loop and the dataset rows.          *)
(***************************************************************************)
\* some write of accepted file p succeeded
Succeeded(p) ==
    \E k \in 1..Len(attempts) : attempts[k].file = NameOf(p) /\ attempts[k].ok

\* how many of the rows are the record of accepted file p
RowCount(rows, p) == Cardinality({k \in 1..Len(rows) : rows[k] = RowOf(p)})

\* C20: for every accepted file and every sequence of write outcomes, the
\* retry loop ends at the first write that succeeds and tries at most
\* max_retries writes; the file has a row in the dataset exactly when one of
\* its writes succeeded, and then one row only.
C20_RowIffWriteSucceeded ==
    \A p \in AcceptedFiles :
        LET a == AttemptsOf(p) IN
        /\ Len(a) <= max_retries
        /\ \A k \in 1..(Len(a) - 1) : ~a[k].ok
        /\ RowCount(csv_data, p) = IF Succeeded(p) THEN 1 ELSE 0
        /\ Succeeded(p) => NameOf(p) \in disk
        /\ (cpc = "done" /\ csv_written) =>
               RowCount(csv_file.rows, p) = IF Succeeded(p) THEN 1 ELSE 0

C20_Witness ==
    /\ cpc = "done"
    /\ Len(result) >= 2
    /\ max_retries = 2
    /\ AttemptsOf(<<1, 1>>) = <<[file |-> NameOf(<<1, 1>>), ok |-> FALSE],
                                [file |-> NameOf(<<1, 1>>), ok |-> TRUE]>>
    /\ AllFailed(<<2, 1>>)
    /\ RowCount(csv_file.rows, <<1, 1>>) = 1
    /\ RowCount(csv_file.rows, <<2, 1>>) = 0

====
